---- MODULE Spec2Model ----
(***************************************************************************)
(* Model of app.py: the content rewriter process_content (domain           *)
(* substitution, path prefixing for HTML attributes and CSS url(), repair  *)
(* of extensionless links) and the driver main (walk, read, transform,     *)
(* write back, tally).                                                     *)
(*                                                                         *)
(* Text is a sequence of tokens. Every token is the literal piece of text  *)
(* it spells, so a document is the concatenation of its tokens. The tokens *)
(* are chosen so that every boundary the code looks for (an attribute      *)
(* name, a quote, a slash, "?", "#", "url(", ")", the old domain) is a     *)
(* token of its own; str methods and the regular expressions are then      *)
(* computed token by token exactly as Python computes them character by    *)
(* character.                                                              *)
(***************************************************************************)
EXTENDS Integers, Sequences, FiniteSets, TLC

VARIABLES
    disk,                \* the tree under root_dir: path -> [kind, data]
    orig,                \* the tree as it was when main started
    EXTRA_REPLACEMENTS,  \* the configured list of (from, to) pairs
    content,             \* the text read / the argument of process_content
    new_content,         \* the text returned by process_content
    again,               \* the text returned by a second application
    calls,               \* the callback invocations of the last application
    dirs,                \* directories os.walk has still to list
    pending,             \* files of the listed directory not yet iterated
    filepath,            \* the file the loop body is working on
    processed_count,
    modified_count,
    report,              \* per file: what main printed about it
    tally,               \* the final "Done. Scanned .. Modified .." line
    pc

vars == <<disk, orig, EXTRA_REPLACEMENTS, content, new_content, again, calls,
          dirs, pending, filepath, processed_count, modified_count, report, tally, pc>>

---------------------------------------------------------------------------
(* Configuration                                                           *)

TARGET_EXTENSIONS == {<<".html">>}

OLD_DOMAIN == <<"mychart-app.com">>

NEW_DOMAIN == <<"mychart-ap.github.io", "/", "download", "/">>

PATH_PREFIX == <<"/", "download">>

FIX_MISSING_HTML_EXTENSION == TRUE

---------------------------------------------------------------------------
(* str methods                                                             *)

startswith(s, p) ==
    /\ Len(p) <= Len(s)
    /\ SubSeq(s, 1, Len(p)) = p

endswith(s, p) ==
    /\ Len(p) <= Len(s)
    /\ SubSeq(s, Len(s) - Len(p) + 1, Len(s)) = p

\* c in s, for a one-token c
contains(s, c) == \E i \in 1..Len(s) : s[i] = c

\* index of the first c in s, Len(s) + 1 when there is none
RECURSIVE find(_, _, _)
find(s, c, i) ==
    IF i > Len(s) THEN Len(s) + 1
    ELSE IF s[i] = c THEN i
    ELSE find(s, c, i + 1)

\* s.split(c)[0]
split_head(s, c) == SubSeq(s, 1, find(s, c, 1) - 1)

\* s.split(c, 1)[1], for s that contains c
split_tail(s, c) == SubSeq(s, find(s, c, 1) + 1, Len(s))

RECURSIVE lstrip(_, _)
lstrip(s, c) ==
    IF s # <<>> /\ s[1] = c THEN lstrip(Tail(s), c) ELSE s

RECURSIVE rstrip(_, _)
rstrip(s, c) ==
    IF s # <<>> /\ s[Len(s)] = c THEN rstrip(SubSeq(s, 1, Len(s) - 1), c) ELSE s

\* s.replace(old, new): leftmost, non-overlapping occurrences
RECURSIVE replace(_, _, _)
replace(s, old, new) ==
    IF s = <<>> THEN <<>>
    ELSE IF startswith(s, old)
         THEN new \o replace(SubSeq(s, Len(old) + 1, Len(s)), old, new)
         ELSE <<s[1]>> \o replace(Tail(s), old, new)

\* str.lower() on the tokens that have upper-case letters
lower(c) ==
    CASE c = "HREF=" -> "href="
      [] c = "URL(" -> "url("
      [] c = ".HTML" -> ".html"
      [] OTHER -> c

---------------------------------------------------------------------------
(* Regular expressions                                                     *)

IsSpace(c) == c \in {" ", "\t", "\n"}

IsQuote(c) == c \in {"\"", "'"}

\* "." matches everything but a newline
IsDot(c) == c # "\n"

\* greedy \s* from position i: the first position that is not whitespace
RECURSIVE SkipSpace(_, _)
SkipSpace(s, i) ==
    IF i <= Len(s) /\ IsSpace(s[i]) THEN SkipSpace(s, i + 1) ELSE i

\* lazy .*? followed by the back-referenced quote q: position of the first
\* q at or after i that only "." tokens separate from i; 0 when none
RECURSIVE FindClose(_, _, _)
FindClose(s, i, q) ==
    IF i > Len(s) THEN 0
    ELSE IF s[i] = q THEN i
    ELSE IF IsDot(s[i]) THEN FindClose(s, i + 1, q)
    ELSE 0

NoMatch == [ok |-> FALSE]

HtmlAttrs == {"href=", "src=", "action=", "content=", "data-src=", "srcset="}

\* (href=|src=|action=|content=|data-src=|srcset=)\s*(["\'])(/.*?)\2
\* with re.IGNORECASE, tried at position i
html_pattern(s, i) ==
    IF lower(s[i]) \notin HtmlAttrs THEN NoMatch
    ELSE LET j == SkipSpace(s, i + 1) IN
         IF j + 1 > Len(s) \/ ~IsQuote(s[j]) \/ s[j + 1] # "/" THEN NoMatch
         ELSE LET k == FindClose(s, j + 2, s[j]) IN
              IF k = 0 THEN NoMatch
              ELSE [ok |-> TRUE, end |-> k,
                    full |-> SubSeq(s, i, k),
                    g1 |-> <<s[i]>>,
                    g2 |-> <<s[j]>>,
                    g3 |-> SubSeq(s, j + 1, k - 1),
                    g4 |-> <<>>,
                    g5 |-> <<>>]

\* ([\'"]?)(\s*\)) tried right after a path that ends at position e:
\* the position of the ")" or 0
CssCloseAt(s, e) ==
    LET a == IF e + 1 <= Len(s) /\ IsQuote(s[e + 1]) THEN e + 2 ELSE e + 1
        b == SkipSpace(s, a)
    IN  IF b <= Len(s) /\ s[b] = ")" THEN b ELSE 0

\* lazy (/.*?) whose last token is at e or later: the first end that the
\* closing part accepts, 0 when none
RECURSIVE CssPathEnd(_, _)
CssPathEnd(s, e) ==
    IF e > Len(s) \/ ~IsDot(s[e]) THEN 0
    ELSE IF CssCloseAt(s, e) # 0 THEN e
    ELSE CssPathEnd(s, e + 1)

\* (url\(\s*)([\'"]?)(/.*?)([\'"]?)(\s*\)) with re.IGNORECASE, at position i
css_pattern(s, i) ==
    IF lower(s[i]) # "url(" THEN NoMatch
    ELSE LET j == SkipSpace(s, i + 1)
             p == IF j <= Len(s) /\ IsQuote(s[j]) THEN j + 1 ELSE j
         IN
         IF p > Len(s) \/ s[p] # "/" THEN NoMatch
         ELSE LET e == IF CssCloseAt(s, p) # 0 THEN p ELSE CssPathEnd(s, p + 1)
              IN
              IF e = 0 THEN NoMatch
              ELSE LET k == CssCloseAt(s, e)
                       q == IF IsQuote(s[e + 1]) THEN e + 2 ELSE e + 1
                   IN  [ok |-> TRUE, end |-> k,
                        full |-> SubSeq(s, i, k),
                        g1 |-> SubSeq(s, i, j - 1),
                        g2 |-> SubSeq(s, j, p - 1),
                        g3 |-> SubSeq(s, p, e),
                        g4 |-> SubSeq(s, e + 1, q - 1),
                        g5 |-> SubSeq(s, q, k)]

\* href=(["\'])(.*?)\1 (case-sensitive, no whitespace allowed), at position i
href_pattern(s, i) ==
    IF s[i] # "href=" THEN NoMatch
    ELSE IF i + 1 > Len(s) \/ ~IsQuote(s[i + 1]) THEN NoMatch
    ELSE LET k == FindClose(s, i + 2, s[i + 1]) IN
         IF k = 0 THEN NoMatch
         ELSE [ok |-> TRUE, end |-> k,
               full |-> SubSeq(s, i, k),
               g1 |-> <<s[i + 1]>>,
               g2 |-> SubSeq(s, i + 2, k - 1),
               g3 |-> <<>>,
               g4 |-> <<>>,
               g5 |-> <<>>]

---------------------------------------------------------------------------
(* The tree under root_dir                                                 *)

\* A path below root_dir is the sequence of its segments, a segment the
\* sequence of tokens that spells the name. An entry has a kind: "file",
\* "dir", or "oserror" when stat() on it raises OSError (permission denied,
\* I/O failure); a path that is not in the tree is absent.
Kinds == {"file", "dir", "oserror"}

RECURSIVE Segments(_)
Segments(p) ==
    IF p = <<>> THEN <<>>
    ELSE LET seg == split_head(p, "/")
             rest == SubSeq(p, Len(seg) + 2, Len(p))
         IN  IF seg = <<>> THEN Segments(rest) ELSE <<seg>> \o Segments(rest)

KindAt(root_dir, p) ==
    IF Segments(p) \in DOMAIN root_dir THEN root_dir[Segments(p)].kind
    ELSE "absent"

\* os.path.isdir: True for a directory, False when stat() raises OSError
isdir(root_dir, p) == KindAt(root_dir, p) = "dir"

\* os.path.isfile: True for a regular file, False when stat() raises OSError
isfile(root_dir, p) == KindAt(root_dir, p) = "file"

---------------------------------------------------------------------------
(* process_content                                                         *)

replace_callback(match) ==
    LET full_match == match.full
        prefix_part == match.g1
        quote == match.g2
        path == match.g3
    IN  IF startswith(path, <<"/", "/">>) THEN full_match
        ELSE IF \/ startswith(path, PATH_PREFIX)
                \/ startswith(path, rstrip(PATH_PREFIX, "/") \o <<"/">>)
             THEN full_match
        ELSE LET clean_prefix == rstrip(PATH_PREFIX, "/")
                 new_path == clean_prefix \o path
             IN  prefix_part \o quote \o new_path \o quote

\* css_callback without the check for protocol-relative paths
css_callback_noskip(match) ==
    IF startswith(match.g3, PATH_PREFIX) THEN match.full
    ELSE match.g1 \o match.g2 \o rstrip(PATH_PREFIX, "/") \o match.g3
         \o match.g4 \o match.g5

css_callback(match) ==
    LET full_match == match.full
        start_url == match.g1
        quote == match.g2
        path == match.g3
        end_quote == match.g4
        end_url == match.g5
    IN  IF startswith(path, <<"/", "/">>) THEN full_match
        ELSE IF startswith(path, PATH_PREFIX) THEN full_match
        ELSE LET clean_prefix == rstrip(PATH_PREFIX, "/")
                 new_path == clean_prefix \o path
             IN  start_url \o quote \o new_path \o end_quote \o end_url

\* the clean relative path of a url that starts with PATH_PREFIX
clean_path(url) ==
    LET rel_path == SubSeq(url, Len(PATH_PREFIX) + 1, Len(url))
        cut == split_head(split_head(rel_path, "?"), "#")
    IN  rstrip(lstrip(cut, "/"), "/")

\* the url fix_html_link emits when it rewrites
new_url(url) ==
    LET base == split_head(split_head(url, "?"), "#")
        url_base == IF endswith(base, <<"/">>)
                    THEN SubSeq(base, 1, Len(base) - 1) ELSE base
        suffix == IF contains(url, "?") THEN <<"?">> \o split_tail(url, "?")
                  ELSE IF contains(url, "#") THEN <<"#">> \o split_tail(url, "#")
                  ELSE <<>>
    IN  url_base \o <<".html">> \o suffix

\* fix_html_link without the check for a directory
fix_html_link_nodir(match, root_dir) ==
    IF ~startswith(match.g2, PATH_PREFIX) \/ clean_path(match.g2) = <<>>
    THEN match.full
    ELSE IF isfile(root_dir, clean_path(match.g2) \o <<".html">>)
         THEN <<"href=">> \o match.g1 \o new_url(match.g2) \o match.g1
    ELSE match.full

fix_html_link(match, root_dir) ==
    LET full_match == match.full
        quote == match.g1
        url == match.g2
    IN  IF ~startswith(url, PATH_PREFIX) THEN full_match
        ELSE IF clean_path(url) = <<>> THEN full_match
        ELSE LET potential_file_path == clean_path(url)
                 potential_html == potential_file_path \o <<".html">>
             IN  IF isdir(root_dir, potential_file_path) THEN full_match
                 ELSE IF isfile(root_dir, potential_html)
                      THEN <<"href=">> \o quote \o new_url(url) \o quote
                 ELSE full_match

Pattern(fn, s, i) ==
    CASE fn = "replace_callback" -> html_pattern(s, i)
      [] fn = "css_callback" -> css_pattern(s, i)
      [] fn = "fix_html_link" -> href_pattern(s, i)

Callback(fn, match, root_dir) ==
    CASE fn = "replace_callback" -> replace_callback(match)
      [] fn = "css_callback" -> css_callback(match)
      [] fn = "fix_html_link" -> fix_html_link(match, root_dir)

\* pattern.sub(callback, s): scan left to right, replace each match by what
\* the callback returns, resume after the match
RECURSIVE re_sub(_, _, _, _)
re_sub(fn, s, i, root_dir) ==
    IF i > Len(s) THEN <<>>
    ELSE LET m == Pattern(fn, s, i) IN
         IF m.ok THEN Callback(fn, m, root_dir) \o re_sub(fn, s, m.end + 1, root_dir)
         ELSE <<s[i]>> \o re_sub(fn, s, i + 1, root_dir)

\* the callback invocations of that scan: the match and what was returned
RECURSIVE re_calls(_, _, _, _)
re_calls(fn, s, i, root_dir) ==
    IF i > Len(s) THEN <<>>
    ELSE LET m == Pattern(fn, s, i) IN
         IF m.ok
         THEN <<[fn |-> fn, match |-> m, ret |-> Callback(fn, m, root_dir)]>>
              \o re_calls(fn, s, m.end + 1, root_dir)
         ELSE re_calls(fn, s, i + 1, root_dir)

Stage1(text) == replace(text, OLD_DOMAIN, NEW_DOMAIN)

Stage2a(text, root_dir) == re_sub("replace_callback", Stage1(text), 1, root_dir)

Stage2b(text, root_dir) == re_sub("css_callback", Stage2a(text, root_dir), 1, root_dir)

process_content(text, root_dir) ==
    IF FIX_MISSING_HTML_EXTENSION
    THEN re_sub("fix_html_link", Stage2b(text, root_dir), 1, root_dir)
    ELSE Stage2b(text, root_dir)

process_content_calls(text, root_dir) ==
    re_calls("replace_callback", Stage1(text), 1, root_dir)
    \o re_calls("css_callback", Stage2a(text, root_dir), 1, root_dir)
    \o (IF FIX_MISSING_HTML_EXTENSION
        THEN re_calls("fix_html_link", Stage2b(text, root_dir), 1, root_dir)
        ELSE <<>>)

---------------------------------------------------------------------------
(* Bounds and input sets                                                   *)

MaxPathLen == 4

MaxUrlLen == 4

MaxTextLen == 3

SeqsUpTo(A, n) == UNION {[1..k -> A] : k \in 0..n}

Entry(kind) == [kind |-> kind, data |-> <<>>]

\* root-relative paths, as the path prefixer meets them
Paths(n) == {<<"/">> \o r : r \in SeqsUpTo({"/", "download", "a"}, n - 1)}

HtmlInputs ==
    {<<attr>> \o ws \o <<q1>> \o p \o <<q2>> :
        attr \in {"href=", "HREF=", "src="}, ws \in {<<>>, <<" ">>},
        q1 \in {"\"", "'"}, q2 \in {"\"", "'"}, p \in Paths(MaxPathLen)}

CssInputs ==
    {<<u>> \o ws1 \o q1 \o p \o q2 \o ws2 \o <<")">> :
        u \in {"url(", "URL("}, ws1 \in {<<>>, <<" ">>}, ws2 \in {<<>>, <<" ">>},
        q1 \in {<<>>, <<"\"">>, <<"'">>}, q2 \in {<<>>, <<"\"">>, <<"'">>},
        p \in Paths(MaxPathLen)}

\* a document with an attribute and a url() in it
PairInputs ==
    {<<"href=", "\"">> \o p \o <<"\"", " ", "url(">> \o r \o <<")">> :
        p \in Paths(MaxPathLen - 1), r \in Paths(MaxPathLen - 1)}

PrefixInputs == HtmlInputs \cup CssInputs \cup PairInputs

UrlTokens == {"/", "download", "a", "?", "#"}

\* href values: the root-relative ones up to MaxUrlLen tokens after the
\* leading slash, and the short ones that do not start with a slash
Urls ==
    {<<"/">> \o r : r \in SeqsUpTo(UrlTokens, MaxUrlLen)}
    \cup {<<x>> : x \in UrlTokens \ {"/"}}
    \cup {<<x, y>> : x \in UrlTokens \ {"/"}, y \in UrlTokens}

FixInputs == {<<"href=", "\"">> \o u \o <<"\"">> : u \in Urls}

\* trees in which a, a.html and a.html.html may exist, or fail to stat
Trees ==
    {[p \in {q \in DOMAIN k : k[q] # "absent"} |-> Entry(k[p])] :
        k \in {(<<<<"a">>>> :> k1) @@ (<<<<"a", ".html">>>> :> k2)
                @@ (<<<<"a", ".html", ".html">>>> :> k3) :
                k1 \in {"absent", "dir", "oserror"},
                k2 \in {"absent", "file", "dir", "oserror"},
                k3 \in {"absent", "file"}}}

OneFileTree == [p \in {<<<<"a", ".html">>>>} |-> Entry("file")]

Texts == SeqsUpTo({"mychart-app.com", "teh", "the", "/"}, MaxTextLen)

ExtraConfigs == {<<>>, <<[from |-> <<"teh">>, to |-> <<"the">>]>>}

---------------------------------------------------------------------------
(* process_content as a function: applied once, then to its own output     *)

InitIdle ==
    /\ orig = disk
    /\ new_content = <<>>
    /\ again = <<>>
    /\ calls = <<>>
    /\ dirs = {}
    /\ pending = {}
    /\ filepath = <<>>
    /\ processed_count = 0
    /\ modified_count = 0
    /\ report = <<>>
    /\ tally = <<>>
    /\ pc = "input"

InitPrefix ==
    /\ content \in PrefixInputs
    /\ disk = OneFileTree
    /\ EXTRA_REPLACEMENTS = <<>>
    /\ InitIdle

InitFix ==
    /\ content \in FixInputs
    /\ disk \in Trees
    /\ EXTRA_REPLACEMENTS = <<>>
    /\ InitIdle

InitText ==
    /\ content \in Texts
    /\ disk = OneFileTree
    /\ EXTRA_REPLACEMENTS \in ExtraConfigs
    /\ InitIdle

Process ==
    /\ pc = "input"
    /\ new_content' = process_content(content, disk)
    /\ calls' = process_content_calls(content, disk)
    /\ pc' = "once"
    /\ UNCHANGED <<disk, orig, EXTRA_REPLACEMENTS, content, again, dirs, pending,
                   filepath, processed_count, modified_count, report, tally>>

Reprocess ==
    /\ pc = "once"
    /\ again' = process_content(new_content, disk)
    /\ calls' = process_content_calls(new_content, disk)
    /\ pc' = "twice"
    /\ UNCHANGED <<disk, orig, EXTRA_REPLACEMENTS, content, new_content, dirs,
                   pending,
                   filepath, processed_count, modified_count, report, tally>>

NextFn == Process \/ Reprocess

SpecPrefix == InitPrefix /\ [][NextFn]_vars

SpecFix == InitFix /\ [][NextFn]_vars

SpecText == InitText /\ [][NextFn]_vars

---------------------------------------------------------------------------
(* Properties of process_content                                           *)

CallsOf(fns) == {i \in 1..Len(calls) : calls[i].fn \in fns}

Rewrote(c) == c.ret # c.match.full

\* C1: process_content is idempotent: applied to its own output under the
\* same tree it returns that output unchanged.
C1_Idempotent == pc = "twice" => again = new_content

\* C4: every (from, to) pair of the configured extra replacements is applied
\* to the text: where the input had the 'from' text the output has the 'to'
\* text and no 'from' text.
C4_ExtraApplied ==
    pc = "once" =>
        \A k \in 1..Len(EXTRA_REPLACEMENTS) :
            LET r == EXTRA_REPLACEMENTS[k] IN
            contains(content, r.from[1]) =>
                /\ contains(new_content, r.to[1])
                /\ ~contains(new_content, r.from[1])

\* C5: the link fixer rewrites an href only when, for its clean relative
\* path p, root/p is not a directory and root/p.html is a regular file; a
\* link whose p.html is missing, or whose p is a directory, is returned
\* unchanged.
C5_RewriteOnlyForFile ==
    \A i \in CallsOf({"fix_html_link"}) :
        LET c == calls[i]
            p == clean_path(c.match.g2)
        IN  Rewrote(c) =>
                /\ startswith(c.match.g2, PATH_PREFIX)
                /\ p # <<>>
                /\ KindAt(disk, p) # "dir"
                /\ KindAt(disk, p \o <<".html">>) = "file"

\* a link to a directory that also has a sibling .html file went through
\* the fixer and came back unchanged
C5_Witness ==
    /\ pc = "once"
    /\ \E i \in CallsOf({"fix_html_link"}) :
        LET p == clean_path(calls[i].match.g2) IN
        /\ startswith(calls[i].match.g2, PATH_PREFIX)
        /\ p # <<>>
        /\ KindAt(disk, p) = "dir"
        /\ KindAt(disk, p \o <<".html">>) = "file"
        /\ ~Rewrote(calls[i])

\* position of the first "?" or "#" of a url, left to right
FirstMarker(url) ==
    IF find(url, "?", 1) < find(url, "#", 1)
    THEN find(url, "?", 1) ELSE find(url, "#", 1)

\* C6: a rewritten url with a query and/or fragment is base + ".html" + the
\* original tail from the first "?" or "#" on, whatever the order of the
\* markers.
C6_SuffixFromFirstMarker ==
    \A i \in CallsOf({"fix_html_link"}) :
        LET c == calls[i]
            url == c.match.g2
            m == FirstMarker(url)
            head == SubSeq(url, 1, m - 1)
            base == IF endswith(head, <<"/">>)
                    THEN SubSeq(head, 1, Len(head) - 1) ELSE head
        IN  Rewrote(c) /\ m <= Len(url) =>
                c.ret = <<"href=">> \o c.match.g1 \o base \o <<".html">>
                        \o SubSeq(url, m, Len(url)) \o c.match.g1

\* the url is the prefix followed by nothing, by a path separator or by a
\* query or fragment marker
UnderPrefix(url) ==
    /\ startswith(url, PATH_PREFIX)
    /\ \/ Len(url) = Len(PATH_PREFIX)
       \/ url[Len(PATH_PREFIX) + 1] \in {"/", "?", "#"}

Lead(c) == c.match.g1 \o c.match.g2

Trail(c) ==
    IF c.fn = "replace_callback" THEN c.match.g2 ELSE c.match.g4 \o c.match.g5

\* C9: for the attribute matcher and the url() matcher alike, a matched path
\* that begins with "//" or with the prefix is returned byte-identical, and
\* any other matched path p comes back as the prefix without trailing slash
\* followed directly by p.
C9_PrefixRule ==
    \A i \in CallsOf({"replace_callback", "css_callback"}) :
        LET c == calls[i]
            p == c.match.g3
        IN  /\ p[1] = "/"
            /\ IF startswith(p, <<"/", "/">>) \/ startswith(p, PATH_PREFIX)
               THEN c.ret = c.match.full
               ELSE /\ c.ret = Lead(c) \o rstrip(PATH_PREFIX, "/") \o p \o Trail(c)
                    /\ ~startswith(rstrip(PATH_PREFIX, "/") \o p,
                                   PATH_PREFIX \o PATH_PREFIX)
                    /\ ~startswith(rstrip(PATH_PREFIX, "/") \o p,
                                   PATH_PREFIX \o <<"/", "/">>)

\* one document in which the attribute matcher prefixed its path and the
\* url() matcher left a protocol-relative path alone
C9_Witness ==
    /\ pc = "once"
    /\ \E i \in CallsOf({"replace_callback"}) :
        /\ ~startswith(calls[i].match.g3, PATH_PREFIX)
        /\ Rewrote(calls[i])
    /\ \E i \in CallsOf({"css_callback"}) :
        /\ startswith(calls[i].match.g3, <<"/", "/">>)
        /\ ~Rewrote(calls[i])

---------------------------------------------------------------------------
(* main: walk the tree, rewrite every matching file, report the tally      *)

IndexDoc == <<<<"index", ".HTML">>>>

ADoc == <<<<"a", ".html">>>>

SubDoc == <<<<"a">>, <<"b", ".html">>>>

Script == <<<<"app", ".py">>>>

\* the texts a document starts with
DocTexts ==
    { <<"href=", "\"", "/", "a", "\"">>,
      <<"url(", "/", "a", ")">>,
      <<"src=", "\"", "/", "/", "mychart-app.com", "/", "a", "\"">>,
      <<"a">> }

File(text) == [kind |-> "file", data |-> text]

\* root_dir holds the script, index.HTML and a.html; "a" is missing, fails
\* to stat, or is a directory that holds b.html
DriverTrees ==
    {(Script :> File(<<"import">>)) @@ (IndexDoc :> File(t1)) @@ (ADoc :> File(t2))
        @@ extra :
        t1 \in DocTexts, t2 \in DocTexts,
        extra \in {<<>>, (<<<<"a">>>> :> Entry("oserror"))}
                  \cup {(<<<<"a">>>> :> Entry("dir")) @@ (SubDoc :> File(t3)) :
                            t3 \in DocTexts}}

DirOf(p) == SubSeq(p, 1, Len(p) - 1)

\* os.walk lists a directory: entries whose is_dir() is true go to dirs,
\* all others (an entry that fails to stat too) go to files
FilesIn(tree, d) == {p \in DOMAIN tree : DirOf(p) = d /\ tree[p].kind # "dir"}

DirsIn(tree, d) == {p \in DOMAIN tree : DirOf(p) = d /\ tree[p].kind = "dir"}

\* any(file.lower().endswith(ext) for ext in TARGET_EXTENSIONS)
Matches(p) ==
    LET file == p[Len(p)]
        lowered == [i \in 1..Len(file) |-> lower(file[i])]
    IN  \E ext \in TARGET_EXTENSIONS : endswith(lowered, ext)

Init ==
    /\ disk \in DriverTrees
    /\ orig = disk
    /\ EXTRA_REPLACEMENTS = <<>>
    /\ content = <<>>
    /\ new_content = <<>>
    /\ again = <<>>
    /\ calls = <<>>
    /\ dirs = DirsIn(disk, <<>>)
    /\ pending = FilesIn(disk, <<>>)
    /\ filepath = <<>>
    /\ processed_count = 0
    /\ modified_count = 0
    /\ report = [p \in FilesIn(disk, <<>>) \cup FilesIn(disk, <<<<"a">>>>) |-> "pending"]
    /\ tally = <<>>
    /\ pc = "walk"

\* a writer that removes the file before it writes the new one
Truncate_unlink(entry) == [kind |-> "absent", data |-> <<>>]

\* open(filepath, 'w') on an existing file empties it
Truncate(entry) == [entry EXCEPT !.data = <<>>]

\* a handler that lets the exception end the run
HandleException_abort ==
    /\ report' = [report EXCEPT ![filepath] = "ERROR"]
    /\ pc' = "aborted"

\* except Exception as e: print("[ERROR] ..."), then the loop goes on
HandleException ==
    /\ report' = [report EXCEPT ![filepath] = "ERROR"]
    /\ pc' = "walk"

\* os.walk moves on to the next directory once the files of this one are done
WalkDir(d) ==
    /\ pc = "walk"
    /\ pending = {}
    /\ d \in dirs
    /\ pending' = FilesIn(disk, d)
    /\ dirs' = (dirs \ {d}) \cup DirsIn(disk, d)
    /\ UNCHANGED <<disk, orig, EXTRA_REPLACEMENTS, content, new_content, again,
                   calls, filepath, processed_count, modified_count, report,
                   tally, pc>>

\* for file in files: the name does not end with a target extension
SkipFile(f) ==
    /\ pc = "walk"
    /\ f \in pending
    /\ ~Matches(f)
    /\ pending' = pending \ {f}
    /\ report' = [report EXCEPT ![f] = "skipped"]
    /\ UNCHANGED <<disk, orig, EXTRA_REPLACEMENTS, content, new_content, again,
                   calls, dirs, filepath, processed_count, modified_count,
                   tally, pc>>

\* for file in files: the name matches, the file is counted and taken up
TakeFile(f) ==
    /\ pc = "walk"
    /\ f \in pending
    /\ Matches(f)
    /\ pending' = pending \ {f}
    /\ filepath' = f
    /\ processed_count' = processed_count + 1
    /\ pc' = "read"
    /\ UNCHANGED <<disk, orig, EXTRA_REPLACEMENTS, content, new_content, again,
                   calls, dirs, modified_count, report, tally>>

ReadOk ==
    /\ pc = "read"
    /\ content' = disk[filepath].data
    /\ pc' = "transform"
    /\ UNCHANGED <<disk, orig, EXTRA_REPLACEMENTS, new_content, again, calls,
                   dirs, pending, filepath, processed_count, modified_count,
                   report, tally>>

\* open(filepath, 'r') or f.read() raises
ReadFail ==
    /\ pc = "read"
    /\ HandleException
    /\ UNCHANGED <<disk, orig, EXTRA_REPLACEMENTS, content, new_content, again,
                   calls, dirs, pending, filepath, processed_count,
                   modified_count, tally>>

\* new_content = process_content(content, root_dir); if new_content != content
Transform ==
    /\ pc = "transform"
    /\ new_content' = process_content(content, disk)
    /\ calls' = process_content_calls(content, disk)
    /\ IF new_content' # content
       THEN pc' = "write" /\ UNCHANGED report
       ELSE pc' = "walk" /\ report' = [report EXCEPT ![filepath] = "unchanged"]
    /\ UNCHANGED <<disk, orig, EXTRA_REPLACEMENTS, content, again, dirs, pending,
                   filepath, processed_count, modified_count, tally>>

\* open(filepath, 'w') raises: the file is as it was
OpenFail ==
    /\ pc = "write"
    /\ HandleException
    /\ UNCHANGED <<disk, orig, EXTRA_REPLACEMENTS, content, new_content, again,
                   calls, dirs, pending, filepath, processed_count,
                   modified_count, tally>>

OpenOk ==
    /\ pc = "write"
    /\ disk' = [disk EXCEPT ![filepath] = Truncate(@)]
    /\ pc' = "writing"
    /\ UNCHANGED <<orig, EXTRA_REPLACEMENTS, content, new_content, again, calls,
                   dirs, pending, filepath, processed_count, modified_count,
                   report, tally>>

\* f.write(new_content) and the close succeed; "[MODIFIED]" is printed
WriteOk ==
    /\ pc = "writing"
    /\ disk' = [disk EXCEPT ![filepath].data = new_content]
    /\ report' = [report EXCEPT ![filepath] = "MODIFIED"]
    /\ modified_count' = modified_count + 1
    /\ pc' = "walk"
    /\ UNCHANGED <<orig, EXTRA_REPLACEMENTS, content, new_content, again, calls,
                   dirs, pending, filepath, processed_count, tally>>

\* f.write or the flush at close raises after n tokens reached the file
WriteFail(n) ==
    /\ pc = "writing"
    /\ n < Len(new_content)
    /\ disk' = [disk EXCEPT ![filepath].data = SubSeq(new_content, 1, n)]
    /\ HandleException
    /\ UNCHANGED <<orig, EXTRA_REPLACEMENTS, content, new_content, again, calls,
                   dirs, pending, filepath, processed_count, modified_count,
                   tally>>

\* print("Done. Scanned {processed_count} files. Modified {modified_count} files.")
Finish ==
    /\ pc = "walk"
    /\ pending = {}
    /\ dirs = {}
    /\ tally' = <<processed_count, modified_count>>
    /\ pc' = "done"
    /\ UNCHANGED <<disk, orig, EXTRA_REPLACEMENTS, content, new_content, again,
                   calls, dirs, pending, filepath, processed_count,
                   modified_count, report>>

Next ==
    \/ \E d \in dirs : WalkDir(d)
    \/ \E f \in pending : SkipFile(f)
    \/ \E f \in pending : TakeFile(f)
    \/ ReadOk
    \/ ReadFail
    \/ Transform
    \/ OpenFail
    \/ OpenOk
    \/ WriteOk
    \/ \E n \in 0..Len(new_content) : WriteFail(n)
    \/ Finish

Spec == Init /\ [][Next]_vars

\* the steps of main other than the call of process_content
IOStep ==
    \/ \E d \in dirs : WalkDir(d)
    \/ \E f \in pending : SkipFile(f)
    \/ \E f \in pending : TakeFile(f)
    \/ ReadOk
    \/ ReadFail
    \/ OpenFail
    \/ OpenOk
    \/ WriteOk
    \/ \E n \in 0..Len(new_content) : WriteFail(n)
    \/ Finish

\* The interpreter runs main to its end: a step of the loop is taken while
\* one is possible, and a call of process_content returns (its scans are
\* finite), so control does not stay in the transform step.
LiveSpec == Spec /\ WF_vars(IOStep) /\ []<>(pc # "transform")

---------------------------------------------------------------------------
(* Properties of main                                                      *)

Docs == {p \in DOMAIN report : Matches(p)}

\* the files main is through with
Finished == {p \in Docs : report[p] \in {"unchanged", "MODIFIED", "ERROR"}}

\* C2: a file main is through with holds either the fully transformed text
\* or exactly its original content, whatever failed on the way.
C2_AllOrNothing ==
    \A p \in Finished :
        \/ disk[p].data = orig[p].data
        \/ disk[p].data = process_content(orig[p].data, orig)

\* C3: an error on one file never stops the run: main reaches its end, every
\* matching file has been attempted by then, and the tally it prints is the
\* number of matching files and the number of files written successfully.
C3_Completes ==
    <>( /\ pc = "done"
        /\ \A p \in Docs : report[p] \in {"unchanged", "MODIFIED", "ERROR"}
        /\ tally = << Cardinality({p \in DOMAIN orig : orig[p].kind = "file" /\ Matches(p)}),
                      Cardinality({p \in Docs : report[p] = "MODIFIED"}) >> )

\* the run ended with one file failed and another one written
C3_Witness ==
    /\ pc = "done"
    /\ \E p \in Docs : report[p] = "ERROR"
    /\ \E p \in Docs : report[p] = "MODIFIED"
    /\ tally[1] = Cardinality(Docs)

\* an existence check of the link fixer met a path that fails to stat
ProbeFailed(text, tree) ==
    LET cs == process_content_calls(text, tree) IN
    \E i \in 1..Len(cs) :
        /\ cs[i].fn = "fix_html_link"
        /\ startswith(cs[i].match.g2, PATH_PREFIX)
        /\ clean_path(cs[i].match.g2) # <<>>
        /\ LET q == clean_path(cs[i].match.g2) IN
           \/ KindAt(tree, q) = "oserror"
           \/ KindAt(tree, q) # "dir" /\ KindAt(tree, q \o <<".html">>) = "oserror"

\* C7: a file whose link check met a probe failure ends as an error and is
\* not written.
C7_ProbeFailureSurfaced ==
    \A p \in Finished :
        ProbeFailed(orig[p].data, orig) =>
            report[p] = "ERROR" /\ disk[p].data = orig[p].data

\* C8: whatever the order of the visits, main neither creates nor removes
\* an entry, and every document it handled without an error holds the
\* transform of its own original text under the original tree.
C8_OrderIndependent ==
    /\ DOMAIN disk = DOMAIN orig
    /\ \A p \in DOMAIN disk : disk[p].kind = orig[p].kind
    /\ \A p \in Finished :
        report[p] # "ERROR" => disk[p].data = process_content(orig[p].data, orig)

\* a.html was written to (and not even completely) and index.HTML, handled
\* as well, had its link to a.html repaired
C8_Witness ==
    /\ pc = "done"
    /\ report[ADoc] = "ERROR"
    /\ disk[ADoc].data # orig[ADoc].data
    /\ report[IndexDoc] = "MODIFIED"
    /\ contains(disk[IndexDoc].data, ".html")

====
